------------------------------ MODULE Spec2Model ------------------------------
(***************************************************************************)
(* Model of crisis-watcher-satellite: the custom WebGL point layer         *)
(* (src/src/lib/SatellitePointLayer.ts), the per-tick pipeline of the      *)
(* globe components (src/src/App.tsx, src/src/components/MapLibreGlobe.tsx *)
(* and the variants under src/unnamed) and the category classifier.        *)
(***************************************************************************)
EXTENDS Integers, Sequences, FiniteSets, TLC

(***************************************************************************)
(* Bounds of the model.                                                    *)
(***************************************************************************)
MaxPts == 1
MaxSets == 2
MaxAttach == 2

NULL == <<>>

(***************************************************************************)
(* SatPoint values handed to setPositions (SatellitePointLayer.ts:8): x, y *)
(* and z are mandatory, r, g and b are optional, so a point is a function  *)
(* whose domain may or may not contain the colour fields.                  *)
(***************************************************************************)
SatPoints ==
  { [x |-> 1, y |-> 2, z |-> 3],
    [x |-> 4, y |-> 5, z |-> 6, r |-> 7, g |-> 8, b |-> 9] }

RECURSIVE SeqsUpTo(_, _)
SeqsUpTo(S, n) ==
  IF n = 0 THEN { <<>> }
  ELSE LET shorter == SeqsUpTo(S, n - 1)
       IN  shorter \cup { Append(s, e) : s \in { t \in shorter : Len(t) = n - 1 }, e \in S }

Collections == SeqsUpTo(SatPoints, MaxPts)

VARIABLES
  \* closure state of createSatellitePointLayer
  gl, map, program, buffer, colorBuffer, aColLoc,
  positions, colors, needsUpload,
  \* the WebGL context: live objects, buffer stores, link status, console
  glLive, glBuf, glLinked, errorLog,
  \* observation of the last layer call
  op, calls, drawCount,
  \* history: number of setPositions calls, and the bufferData uploads of the
  \* current collection (all of them, and those done by render)
  posId, lastSet, uploads, renderUploads, attachCount, removed, setSinceRender,
  prevDraw,
  \* one application of pickCategory / pickColorByType
  pType, pName, pAlt, pCat, pColor,
  \* the globe component: props, memoised records, clock, last tick's output
  variant, tles, typesBySatnum, satrecs, now, tickNow, data, srcIdx, shown,
  counts, summaryTick, ticks, everDropped,
  \* the category counted for each point of data (counts[cat]++)
  cats,
  \* one application of scaleAltitudeLog to each of two altitudes
  curve, altLo, altHi, scaledLo, scaledHi,
  \* one evaluation of the satrecs memo: the component, its entries prop, the
  \* values Math.random returns, and the memoised records
  component, entries, tokens, records, memoised,
  \* the point-layer component: its lifecycle and its refresh timer
  phase, timer,
  \* the data pipeline (scripts/satellite.ts): per dataset the loop index,
  \* the number of fetch calls, the delays slept and the result; the
  \* directories and files on disk, the files this run wrote, the next
  \* persisting step of run() and the exit code of the process
  fetchI, attempts, slept, fetched, dirs, disk, written, runStep, exitCode,
  \* LoadTleAndRender (part_002): the two responses, the position of the
  \* async loader and its React state tles, typesBySatnum and err
  tleRes, gpRes, loaderPc, loaderTles, loaderTypes, err,
  \* the globe component it renders: which variant, its lifecycle, the active
  \* and the cleared interval timers, the mapping captured by the closure of
  \* each run of the tick effect, the dependencies of the last run, and the
  \* ticks: how many, by which timer, with which mapping
  globeVariant, globe, timers, cleared, closures, effectDeps,
  globeTicks, tickBy, tickUsed

layerVars ==
  << gl, map, program, buffer, colorBuffer, aColLoc, positions, colors,
     needsUpload, glLive, glBuf, glLinked, errorLog, op, calls, drawCount,
     posId, lastSet, uploads, renderUploads, attachCount, removed,
     setSinceRender, prevDraw >>

pickVars == << pType, pName, pAlt, pCat, pColor >>

tickVars ==
  << variant, tles, typesBySatnum, satrecs, now, tickNow, data, srcIdx, shown,
     counts, summaryTick, ticks, everDropped, cats >>

remapVars == << curve, altLo, altHi, scaledLo, scaledHi >>

parseVars == << component, entries, tokens, records, memoised >>

compVars == << phase, timer >>

runVars ==
  << fetchI, attempts, slept, fetched, dirs, disk, written, runStep, exitCode >>

loadVars ==
  << tleRes, gpRes, loaderPc, loaderTles, loaderTypes, err,
     globeVariant, globe, timers, cleared, closures, effectDeps,
     globeTicks, tickBy, tickUsed >>

vars == << layerVars, pickVars, tickVars, remapVars, parseVars, compVars, runVars, loadVars >>

(***************************************************************************)
(* `p.r ?? 0' and the two Float32Arrays filled by setPositions.            *)
(***************************************************************************)
\* without `?? 0' a Float32Array element assigned undefined holds NaN
Field_undefined(p, f) == IF f \in DOMAIN p THEN p[f] ELSE -2147483647

Field(p, f) == IF f \in DOMAIN p THEN p[f] ELSE 0

RECURSIVE PosArray(_)
PosArray(pts) ==
  IF pts = <<>> THEN <<>>
  ELSE << Head(pts).x, Head(pts).y, Head(pts).z >> \o PosArray(Tail(pts))

RECURSIVE ColArray(_)
ColArray(pts) ==
  IF pts = <<>> THEN <<>>
  ELSE << Field(Head(pts), "r"), Field(Head(pts), "g"), Field(Head(pts), "b") >>
       \o ColArray(Tail(pts))

Handle(kind, n) == << kind, n >>

LayerInit ==
  /\ gl = NULL /\ map = NULL /\ program = NULL
  /\ buffer = NULL /\ colorBuffer = NULL /\ aColLoc = -1
  /\ positions = <<>> /\ colors = <<>> /\ needsUpload = FALSE
  /\ glLive = {} /\ glBuf = <<>> /\ glLinked = {} /\ errorLog = {}
  /\ op = "create" /\ calls = {} /\ drawCount = 0
  /\ posId = 0 /\ lastSet = <<>>
  /\ uploads = 0 /\ renderUploads = 0
  /\ attachCount = 0 /\ removed = FALSE /\ setSinceRender = FALSE
  /\ prevDraw = -1

(***************************************************************************)
(* glLive is the set of allocated GL objects.  glBuf maps each buffer the   *)
(* layer still holds a handle to onto its data store, and glLinked is the  *)
(* set of existing programs whose link succeeded: a handle the layer has   *)
(* dropped can never be bound, read or written again, so onRemove forgets  *)
(* the store and the link status of every handle it clears, deleted or     *)
(* not, while glLive keeps whatever was not deleted.                       *)
(***************************************************************************)
BufferData(store, h, array) ==
  [k \in DOMAIN store \cup {h} |-> IF k = h THEN array ELSE store[k]]

DropBuffer(store, h) == [k \in DOMAIN store \ {h} |-> store[k]]

Attached == gl # NULL /\ program # NULL /\ buffer # NULL

(***************************************************************************)
(* createShader / createProgram: a compile or link failure is logged and   *)
(* the shader / program object is returned all the same.                   *)
(***************************************************************************)
createProgramLog(vsOk, fsOk, linkOk) ==
  (IF vsOk /\ fsOk THEN {} ELSE {"shader error"})
  \cup (IF vsOk /\ fsOk /\ linkOk THEN {} ELSE {"program link error"})

createProgram(n) == Handle("program", n)

onAdd ==
  /\ attachCount < MaxAttach
  /\ \E vsOk \in BOOLEAN, fsOk \in BOOLEAN, linkOk \in BOOLEAN :
       LET n == attachCount + 1
           p == createProgram(n)
           linked == vsOk /\ fsOk /\ linkOk
           b == Handle("buffer", n)
           cb == Handle("colorBuffer", n)
       IN  /\ map' = Handle("map", 0)
           /\ gl' = Handle("gl", 0)
           /\ program' = p
           /\ errorLog' = errorLog \cup createProgramLog(vsOk, fsOk, linkOk)
           /\ glLinked' = IF linked THEN glLinked \cup {p} ELSE glLinked
           /\ aColLoc' = IF linked THEN 1 ELSE -1
           /\ buffer' = b
           /\ colorBuffer' = cb
           /\ glLive' = glLive \cup { p, Handle("vs", n), Handle("fs", n), b, cb }
           /\ glBuf' = BufferData(BufferData(glBuf, b, positions), cb, colors)
           /\ uploads' = uploads + 1
           /\ attachCount' = n
           /\ op' = "onAdd"
           /\ calls' = { "createProgram", "createBuffer", "bufferData" }
           /\ drawCount' = 0
  /\ UNCHANGED << positions, colors, needsUpload, posId, lastSet,
                  renderUploads, removed, setSinceRender, prevDraw >>

\* render, line 106: `if (!gl || !program || !buffer) return'
renderReturnsEarly_noGuard == FALSE

renderReturnsEarly == gl = NULL \/ program = NULL \/ buffer = NULL

\* render, line 113: `if (needsUpload)'
renderUploadsNow_everyFrame == TRUE

renderUploadsNow == needsUpload

\* render, line 120: `needsUpload = false'
dirtyAfterUpload_stays == TRUE

dirtyAfterUpload == FALSE

render ==
  /\ op' = "render"
  /\ IF renderReturnsEarly
     THEN /\ calls' = {}
          /\ drawCount' = 0
          /\ UNCHANGED << needsUpload, glBuf, uploads, renderUploads,
                          setSinceRender, prevDraw >>
     ELSE LET count == Len(positions) \div 3
              up1 == BufferData(glBuf, buffer, positions)
              up2 == IF colorBuffer # NULL
                     THEN BufferData(up1, colorBuffer, colors) ELSE up1
          IN  /\ IF renderUploadsNow
                 THEN /\ glBuf' = up2
                      /\ uploads' = uploads + 1
                      /\ renderUploads' = renderUploads + 1
                      /\ needsUpload' = dirtyAfterUpload
                 ELSE UNCHANGED << glBuf, uploads, renderUploads, needsUpload >>
              /\ setSinceRender' = FALSE
              /\ drawCount' = count
              /\ prevDraw' = count
              /\ calls' = {"useProgram"}
                          \cup (IF renderUploadsNow THEN {"bufferData"} ELSE {})
                          \cup (IF count > 0 THEN {"drawArrays"} ELSE {})
  /\ UNCHANGED << gl, map, program, buffer, colorBuffer, aColLoc, positions,
                  colors, glLive, glLinked, errorLog, posId, lastSet,
                  attachCount, removed >>

\* onRemove, lines 146-148: the GL calls behind `if (!gl) return',
\* `if (buffer)' and `if (program)'
removeCalls_unguarded == { "deleteBuffer", "deleteProgram" }

removeCalls ==
  IF gl = NULL
  THEN {}
  ELSE (IF buffer # NULL THEN {"deleteBuffer"} ELSE {})
       \cup (IF program # NULL THEN {"deleteProgram"} ELSE {})

onRemove ==
  /\ op' = "onRemove"
  /\ drawCount' = 0
  /\ calls' = removeCalls
  /\ IF gl = NULL
     THEN /\ UNCHANGED << gl, map, program, buffer, colorBuffer, glLive,
                          glBuf, glLinked, removed >>
     ELSE /\ glLive' = glLive \ ( (IF buffer # NULL THEN {buffer} ELSE {})
                                  \cup (IF program # NULL THEN {program} ELSE {}) )
          /\ glBuf' = DropBuffer(DropBuffer(glBuf, buffer), colorBuffer)
          /\ glLinked' = glLinked \ {program}
          /\ buffer' = NULL
          /\ colorBuffer' = NULL
          /\ program' = NULL
          /\ gl' = NULL
          /\ map' = NULL
          /\ removed' = TRUE
  /\ UNCHANGED << aColLoc, positions, colors, needsUpload, errorLog,
                  posId, lastSet, uploads, renderUploads, attachCount,
                  setSinceRender, prevDraw >>

\* setPositions, line 170: `needsUpload = true'
dirtyAfterSet_forgotten == FALSE

dirtyAfterSet == TRUE

\* setPositions, lines 156-164: the new position array, attached or not
positionsAfterSet_attachedOnly(worldPositions) ==
  IF gl = NULL THEN positions ELSE PosArray(worldPositions)

positionsAfterSet(worldPositions) == PosArray(worldPositions)

setPositions(worldPositions) ==
  /\ posId < MaxSets
  /\ positions' = positionsAfterSet(worldPositions)
  /\ colors' = ColArray(worldPositions)
  /\ needsUpload' = dirtyAfterSet
  /\ posId' = posId + 1
  /\ lastSet' = worldPositions
  /\ uploads' = 0
  /\ renderUploads' = 0
  /\ setSinceRender' = TRUE
  /\ op' = "setPositions"
  /\ calls' = IF map # NULL THEN {"triggerRepaint"} ELSE {}
  /\ drawCount' = 0
  /\ UNCHANGED << gl, map, program, buffer, colorBuffer, aColLoc, glLive,
                  glBuf, glLinked, errorLog, attachCount, removed, prevDraw >>

\* the host (MapLibre, the component) calling the layer
hostOnAdd ==
  /\ onAdd
  /\ UNCHANGED << pickVars, tickVars, remapVars, parseVars, compVars, runVars, loadVars >>

hostRender ==
  /\ render
  /\ UNCHANGED << pickVars, tickVars, remapVars, parseVars, compVars, runVars, loadVars >>

hostOnRemove ==
  /\ onRemove
  /\ UNCHANGED << pickVars, tickVars, remapVars, parseVars, compVars, runVars, loadVars >>

hostSetPositions ==
  /\ \E w \in Collections : setPositions(w)
  /\ UNCHANGED << pickVars, tickVars, remapVars, parseVars, compVars, runVars, loadVars >>


(***************************************************************************)
(* Strings are sequences of one-character strings, so that toUpperCase,    *)
(* trim, includes and the regular expression test are computed.            *)
(***************************************************************************)
LowerCase == <<"a", "b", "c", "d", "e", "f", "g", "h", "i", "j", "k", "l", "m", "n", "o", "p", "q", "r", "s", "t", "u", "v", "w", "x", "y", "z">>

UpperCase == <<"A", "B", "C", "D", "E", "F", "G", "H", "I", "J", "K", "L", "M", "N", "O", "P", "Q", "R", "S", "T", "U", "V", "W", "X", "Y", "Z">>

UpperOf ==
  [c \in { LowerCase[i] : i \in 1..Len(LowerCase) } |->
     UpperCase[CHOOSE i \in 1..Len(LowerCase) : LowerCase[i] = c]]

UpperChar(c) == IF c \in DOMAIN UpperOf THEN UpperOf[c] ELSE c

toUpperCase(str) == [i \in 1..Len(str) |-> UpperChar(str[i])]

RECURSIVE trimStart(_)
trimStart(str) ==
  IF str # <<>> /\ Head(str) = " " THEN trimStart(Tail(str)) ELSE str

RECURSIVE trimEnd(_)
trimEnd(str) ==
  IF str # <<>> /\ str[Len(str)] = " "
  THEN trimEnd(SubSeq(str, 1, Len(str) - 1)) ELSE str

trim(str) == trimEnd(trimStart(str))

includes(str, pat) ==
  \E i \in 0..(Len(str) - Len(pat)) : SubSeq(str, i + 1, i + Len(pat)) = pat


(***************************************************************************)
(* IEEE NaN among the integers of the model: every arithmetic operator and *)
(* comparison that can meet it treats it as JavaScript does.               *)
(***************************************************************************)
NaN == -2147483647

MathMax(a, b) == IF a = NaN \/ b = NaN THEN NaN ELSE IF a >= b THEN a ELSE b

Times(a, b) == IF a = NaN \/ b = NaN THEN NaN ELSE a * b

GreaterThan_orEqual(a, b) == a # NaN /\ b # NaN /\ a >= b

GreaterThan(a, b) == a # NaN /\ b # NaN /\ a > b

GEO_THRESHOLD_KM == 30000

NavPatterns ==
  { <<"G", "P", "S">>,
    <<"N", "A", "V", "S", "T", "A", "R">>,
    <<"G", "L", "O", "N", "A", "S", "S">>,
    <<"G", "A", "L", "I", "L", "E", "O">>,
    <<"B", "E", "I", "D", "O", "U">>,
    <<"B", "D", "S">>,
    <<"I", "R", "N", "S", "S">>,
    <<"Q", "Z", "S", "S">> }

\* /(GPS|NAVSTAR|GLONASS|GALILEO|BEIDOU|BDS|IRNSS|QZSS)/i.test(name)
isNav(name) ==
  \E upper \in { toUpperCase(name) } : \E pat \in NavPatterns : includes(upper, pat)

\* the four last lines of pickCategory: the tests on the type string
typeCategory_debrisFirst(t) ==
  IF includes(t, <<"D", "E", "B", "R", "I", "S">>) THEN "DEBRIS"
  ELSE IF includes(t, <<"R", "O", "C", "K", "E", "T">>) THEN "ROCKET"
  ELSE IF includes(t, <<"P", "A", "Y", "L", "O", "A", "D">>) THEN "PAYLOAD"
  ELSE "OTHER"

typeCategory(t) ==
  IF includes(t, <<"P", "A", "Y", "L", "O", "A", "D">>) THEN "PAYLOAD"
  ELSE IF includes(t, <<"R", "O", "C", "K", "E", "T">>) THEN "ROCKET"
  ELSE IF includes(t, <<"D", "E", "B", "R", "I", "S">>) THEN "DEBRIS"
  ELSE "OTHER"

pickCategory_geoFirst(objectType, name, altKm) ==
  LET t == toUpperCase(objectType)
      isGEO == GreaterThan(altKm, GEO_THRESHOLD_KM)
  IN  IF isGEO THEN "GEO"
      ELSE IF isNav(name) THEN "NAV"
      ELSE typeCategory(t)

pickCategory(objectType, name, altKm) ==
  LET t == toUpperCase(objectType)
      isGEO == GreaterThan(altKm, GEO_THRESHOLD_KM)
  IN  IF isNav(name) THEN "NAV"
      ELSE IF isGEO THEN "GEO"
      ELSE typeCategory(t)

\* category-first colouring (App.tsx, first variant of part_001)
pickColorByType_nameless(objectType, name, altKm) ==
  LET cat == pickCategory(objectType, <<>>, altKm)
  IN  CASE cat = "NAV" -> << 255, 80, 80, 255 >>
        [] cat = "GEO" -> << 255, 220, 0, 255 >>
        [] cat = "OTHER" -> << 255, 150, 50, 255 >>
        [] OTHER -> << 255, 150, 50, 255 >>

pickColorByType(objectType, name, altKm) ==
  LET cat == pickCategory(objectType, name, altKm)
  IN  CASE cat = "NAV" -> << 255, 80, 80, 255 >>
        [] cat = "GEO" -> << 255, 220, 0, 255 >>
        [] cat = "OTHER" -> << 255, 150, 50, 255 >>
        [] OTHER -> << 255, 150, 50, 255 >>

\* palette colouring of the ScatterplotLayer variant (part_001:313-323)
pickColorByTypePalette(objectType, name, altKm) ==
  LET t == toUpperCase(objectType)
      isGEO == GreaterThan(altKm, GEO_THRESHOLD_KM)
  IN  IF isNav(name) THEN << 46, 204, 113, 255 >>
      ELSE IF isGEO THEN << 167, 139, 250, 255 >>
      ELSE IF includes(t, <<"P", "A", "Y", "L", "O", "A", "D">>) THEN << 255, 209, 102, 255 >>
      ELSE IF includes(t, <<"R", "O", "C", "K", "E", "T">>) THEN << 248, 150, 30, 255 >>
      ELSE IF includes(t, <<"D", "E", "B", "R", "I", "S">>) THEN << 158, 158, 158, 255 >>
      ELSE << 0, 212, 255, 255 >>

\* pickColorByType of the deck.gl overlay variant (part_003:45-64) with the
\* Math.round(c * 255) of its tick (part_003:207)
overlayColor(objectType, name, altKm) ==
  LET t == toUpperCase(objectType)
      isGEO == GreaterThan(altKm, GEO_THRESHOLD_KM)
  IN  IF isNav(name) THEN << 46, 204, 112, 255 >>
      ELSE IF isGEO THEN << 168, 140, 250, 255 >>
      ELSE IF includes(t, <<"P", "A", "Y", "L", "O", "A", "D">>) THEN << 255, 209, 102, 255 >>
      ELSE IF includes(t, <<"R", "O", "C", "K", "E", "T">>) THEN << 247, 150, 31, 255 >>
      ELSE IF includes(t, <<"D", "E", "B", "R", "I", "S">>) THEN << 158, 158, 158, 255 >>
      ELSE << 0, 212, 255, 255 >>

(***************************************************************************)
(* Inputs on which the classifier is exercised.  NavNames are names that   *)
(* contain a navigation-constellation name in some letter case, OtherNames *)
(* are names that contain none.                                            *)
(***************************************************************************)
NavNames ==
  { <<"G", "P", "S", " ", "B", "I", "I", "R", "-", "2">>,
    <<"n", "a", "v", "s", "t", "a", "r", " ", "4", "3">>,
    <<"G", "l", "o", "n", "a", "s", "s", "-", "M">>,
    <<"G", "A", "L", "I", "L", "E", "O", " ", "5">>,
    <<"B", "e", "i", "D", "o", "u", "-", "3">>,
    <<"x", "b", "d", "s", "9">>,
    <<"I", "R", "N", "S", "S", "-", "1", "A">>,
    <<"a", " ", "q", "z", "s", "s">> }

OtherNames ==
  { <<"I", "S", "S">>,
    <<"S", "T", "A", "R", "L", "I", "N", "K", "-", "1">>,
    <<"2", "5", "5", "4", "4">>,
    <<"G", "P", " ", "S">>,
    <<"N", "A", "V", "S", "T", "A">>,
    <<>> }

TypeStrings ==
  { <<>>,
    <<"P", "A", "Y", "L", "O", "A", "D">>,
    <<"R", "O", "C", "K", "E", "T", " ", "B", "O", "D", "Y">>,
    <<"D", "E", "B", "R", "I", "S">>,
    <<"U", "N", "K", "N", "O", "W", "N">>,
    <<" ", "p", "a", "y", "l", "o", "a", "d", " ">>,
    <<"r", "o", "c", "k", "e", "t", " ", "d", "e", "b", "r", "i", "s">>,
    <<"D", "e", "b", "r", "i", "s", "/", "R", "o", "c", "k", "e", "t", "/", "P", "a", "y", "l", "o", "a", "d">> }

Altitudes == { NaN, -3, 0, 400, 30000, 30001, 35786 }

NoCat == "none"

PickInit ==
  /\ pType \in TypeStrings
  /\ pName \in NavNames \cup OtherNames
  /\ pAlt \in Altitudes
  /\ pCat = NoCat
  /\ pColor = <<>>

PickIdle ==
  /\ pType = <<>> /\ pName = <<>> /\ pAlt = 0 /\ pCat = NoCat /\ pColor = <<>>

classify ==
  /\ pCat = NoCat
  /\ pCat' = pickCategory(pType, pName, pAlt)
  /\ pColor' = pickColorByType(pType, pName, pAlt)
  /\ UNCHANGED << pType, pName, pAlt >>
  /\ UNCHANGED << layerVars, tickVars, remapVars, parseVars, compVars, runVars, loadVars >>


(***************************************************************************)
(* The altitude remap.  Fractions are fixed-point numbers with ONE standing *)
(* for 1.0, every operation rounding down to a multiple of 1/ONE (IEEE      *)
(* rounding is not modelled).  Math.pow with an exponent of g tenths is the *)
(* g-th power of the tenth root, and Math.log1p is a base-2 logarithm with  *)
(* LOG_BITS fractional bits: scaleAltitudeLog only uses a ratio of two      *)
(* logarithms, which does not depend on the base.                           *)
(***************************************************************************)
ONE == 10000

MathMin(a, b) == IF a = NaN \/ b = NaN THEN NaN ELSE IF a <= b THEN a ELSE b

\* a / b for 0 <= a <= b, by long division
FixDiv(a, b) ==
  LET d1 == (a * 100) \div b
      r1 == (a * 100) % b
  IN  d1 * 100 + (r1 * 100) \div b

\* f * n for a fraction f and an integer n
FixTimes(f, n) == f * (n \div ONE) + (f * (n % ONE)) \div ONE

RECURSIVE FixPow(_, _)
FixPow(r, n) == IF n = 0 THEN ONE ELSE (FixPow(r, n - 1) * r) \div ONE

\* the least r with r^10 >= t, searched between lo (too small) and hi
RECURSIVE Root10(_, _, _)
Root10(t, lo, hi) ==
  IF hi - lo <= 1 THEN hi
  ELSE LET mid == (lo + hi) \div 2
       IN  IF FixPow(mid, 10) >= t THEN Root10(t, lo, mid) ELSE Root10(t, mid, hi)

\* Math.pow(t, g / 10) for 0 <= t <= 1
MathPow(t, g) == FixPow(Root10(t, -1, ONE), g)

ATMOSPHERE_TOP_M == 120000

SHELL_THICKNESS_M == 300000

LEO_MAX_M == 2000000

MEO_MAX_M == 20200000

GEO_ALT_M == 35786000

LEO_FRAC == 2500

MEO_FRAC == 6000

GAMMA_LEO == 7

GAMMA_MEO == 9

GAMMA_GEO == 12

\* the formula of each band for the shell fraction f, App.tsx:246-254
leoFraction(a) == (MathPow(FixDiv(a, LEO_MAX_M), GAMMA_LEO) * LEO_FRAC) \div ONE

meoFraction(a) ==
  LEO_FRAC + (MathPow(FixDiv(a - LEO_MAX_M, MEO_MAX_M - LEO_MAX_M), GAMMA_MEO)
                * (MEO_FRAC - LEO_FRAC)) \div ONE

geoFraction(a) ==
  MEO_FRAC + (MathPow(FixDiv(a - MEO_MAX_M, GEO_ALT_M - MEO_MAX_M), GAMMA_GEO)
                * (ONE - MEO_FRAC)) \div ONE

\* the shell fraction f of the clamped altitude a, App.tsx:245-255
shellFraction_inverted(a) ==
  IF a <= LEO_MAX_M
  THEN LEO_FRAC - (MathPow(FixDiv(a, LEO_MAX_M), GAMMA_LEO) * LEO_FRAC) \div ONE
  ELSE IF a <= MEO_MAX_M
  THEN LEO_FRAC + (MathPow(FixDiv(a - LEO_MAX_M, MEO_MAX_M - LEO_MAX_M), GAMMA_MEO)
                     * (MEO_FRAC - LEO_FRAC)) \div ONE
  ELSE MEO_FRAC + (MathPow(FixDiv(a - MEO_MAX_M, GEO_ALT_M - MEO_MAX_M), GAMMA_GEO)
                     * (ONE - MEO_FRAC)) \div ONE

shellFraction(a) ==
  IF a <= LEO_MAX_M THEN leoFraction(a)
  ELSE IF a <= MEO_MAX_M THEN meoFraction(a)
  ELSE geoFraction(a)

\* Math.max(0, Math.min(altM, GEO_ALT_M)), App.tsx:244: NaN stays NaN
clampAltitude(altM) == MathMax(0, MathMin(altM, GEO_ALT_M))

\* the piecewise remap of App.tsx:243-257; with a NaN every comparison is
\* false, the last band is taken and f is NaN
scaleAltitudeLog(altM) ==
  LET a == clampAltitude(altM)
  IN  IF a = NaN THEN NaN
      ELSE ATMOSPHERE_TOP_M + FixTimes(shellFraction(a), SHELL_THICKNESS_M)

LOG_BITS == 8

LOG_MANTISSA == 16384

RECURSIVE FloorLog2(_)
FloorLog2(x) == IF x < 2 THEN 0 ELSE 1 + FloorLog2(x \div 2)

RECURSIVE Pow2(_)
Pow2(n) == IF n = 0 THEN 1 ELSE 2 * Pow2(n - 1)

\* the fractional bits of log2 of the mantissa m, 1 <= m / LOG_MANTISSA < 2
RECURSIVE Log2Frac(_, _)
Log2Frac(m, bits) ==
  IF bits = 0 THEN 0
  ELSE LET sq == (m * m) \div LOG_MANTISSA
       IN  IF sq >= 2 * LOG_MANTISSA
           THEN Pow2(bits - 1) + Log2Frac(sq \div 2, bits - 1)
           ELSE Log2Frac(sq, bits - 1)

\* Math.log1p(a) for a >= 0
log1p(a) ==
  LET x == 1 + a
      n == FloorLog2(x)
      m == IF n >= 14 THEN x \div Pow2(n - 14) ELSE x * Pow2(14 - n)
  IN  n * Pow2(LOG_BITS) + Log2Frac(m, LOG_BITS)

LOG_ATMOSPHERE_TOP_M == 200000

LOG_SHELL_THICKNESS_M == 80000

MAX_ALT_M == 100000000

\* the logarithmic remap of part_001:148-152
scaleAltitudeLogarithmic(altM) ==
  LET a == MathMax(0, MathMin(altM, MAX_ALT_M))
  IN  IF a = NaN THEN NaN
      ELSE LOG_ATMOSPHERE_TOP_M
           + (log1p(a) * LOG_SHELL_THICKNESS_M) \div log1p(MAX_ALT_M)

Curves == { "piecewise", "logarithmic" }

scaled(c, altM) ==
  IF c = "piecewise" THEN scaleAltitudeLog(altM) ELSE scaleAltitudeLogarithmic(altM)

\* altitudes in metres handed to the remap: below zero, zero, inside each
\* band, on and next to each band boundary, above either maximum, and NaN
AltitudesM ==
  { NaN, -5000, 0, 1, 400000, 1999999, 2000000, 2000001, 11000000, 20200000,
    20200001, 35785999, 35786000, 35786001, 99999999, 100000000, 100000001 }

NotScaled == -1

RemapInit ==
  /\ curve \in Curves
  /\ altLo \in AltitudesM
  /\ altHi \in AltitudesM
  /\ scaledLo = NotScaled /\ scaledHi = NotScaled

RemapIdle ==
  /\ curve = "piecewise" /\ altLo = 0 /\ altHi = 0
  /\ scaledLo = NotScaled /\ scaledHi = NotScaled

remap ==
  /\ scaledLo = NotScaled
  /\ scaledLo' = scaled(curve, altLo)
  /\ scaledHi' = scaled(curve, altHi)
  /\ UNCHANGED << curve, altLo, altHi >>
  /\ UNCHANGED << layerVars, pickVars, tickVars, parseVars, compVars, runVars, loadVars >>


(***************************************************************************)
(* The globe component.  A Tle entry has an optional name; twoline2satrec  *)
(* either throws (valid = FALSE) or yields a record with an optional       *)
(* catalogue number.  The orbit names the ephemeris that satellite.js      *)
(* computes for the record.                                                *)
(***************************************************************************)
MaxTles == 2
MaxTime == 1
MaxTicks == 3

TleCatalogue ==
  { [name |-> <<"I", "S", "S">>, valid |-> TRUE, satnum |-> 25544, orbit |-> "leo"],
    [valid |-> TRUE, satnum |-> 7, orbit |-> "geo"],
    [name |-> <<"C", "O", "S", "M", "O", "S", " ", "D", "E", "B">>, valid |-> TRUE, satnum |-> 8, orbit |-> "decay"],
    [name |-> <<"g", "p", "s", " ", "b", "i", "i", "r", "-", "2">>, valid |-> TRUE, satnum |-> 9, orbit |-> "flaky"],
    [name |-> <<"B", "R", "O", "K", "E", "N">>, valid |-> FALSE],
    [valid |-> TRUE, orbit |-> "leo"] }

TypeMaps ==
  { <<>>,
    (25544 :> <<" ", "p", "a", "y", "l", "o", "a", "d", " ">>) @@ (7 :> <<"R", "O", "C", "K", "E", "T", " ", "B", "O", "D", "Y">>) @@ (8 :> <<"D", "E", "B", "R", "I", "S">>)
      @@ (9 :> <<"P", "A", "Y", "L", "O", "A", "D">>) }

RandomTokens == { <<"k", "3", "x", "9">>, <<"q", "7", "f", "z">> }

Variants == { "mesh", "scatter", "points", "overlay" }

(***************************************************************************)
(* propagate(rec, now) followed by eciToGeodetic / degreesLat /            *)
(* degreesLong: a pure function of the record and the instant.  pos is     *)
(* FALSE when propagate returns no position.                               *)
(***************************************************************************)
NoPosition == [pos |-> FALSE, lon |-> 0, lat |-> 0, height |-> 0]

Geodetic(lon, lat, height) ==
  [pos |-> TRUE, lon |-> lon, lat |-> lat, height |-> height]

propagate(rec, t) ==
  CASE rec.orbit = "leo" -> Geodetic(10 + t, 51, 400 + t)
    [] rec.orbit = "geo" -> Geodetic(140, 0, 35786)
    [] rec.orbit = "decay" ->
         IF t = 0 THEN Geodetic(30, 10, -3)
         ELSE IF t = 1 THEN Geodetic(31, 11, NaN)
         ELSE NoPosition
    [] rec.orbit = "flaky" ->
         IF t % 2 = 1 THEN Geodetic(40 + t, -20, 20200) ELSE NoPosition

RECURSIVE numberToString(_)
numberToString(n) ==
  LET digit == << "0", "1", "2", "3", "4", "5", "6", "7", "8", "9" >>
  IN  IF n < 10 THEN << digit[n + 1] >>
      ELSE Append(numberToString(n \div 10), digit[(n % 10) + 1])

\* t.name ?? satnum?.toString() ?? Math.random().toString(36).slice(2)
recordId(t, random) ==
  IF "name" \in DOMAIN t THEN t.name
  ELSE IF "satnum" \in DOMAIN t THEN numberToString(t.satnum)
  ELSE random

toSatrec(t, random) ==
  IF "satnum" \in DOMAIN t
  THEN [id |-> recordId(t, random), rec |-> [orbit |-> t.orbit], satnum |-> t.satnum]
  ELSE [id |-> recordId(t, random), rec |-> [orbit |-> t.orbit]]

SLICE_CAP == 300

SLICE_CAP_POINTS == 200

\* tles.slice(0, 300), or tles.slice(0, 200) in the point-layer component
sliceCap_uncapped(v) == 1000000

sliceCap(v) == IF v \in { "points", "omm", "overlay" } THEN SLICE_CAP_POINTS ELSE SLICE_CAP

\* the indices of the entries whose conversion does not throw
converted(list) == SelectSeq([i \in 1..Len(list) |-> i], LAMBDA i : list[i].valid)

\* .map(try ... catch { return null }).filter(Boolean); random[i] is what
\* Math.random returns in the callback of entry i
parseTles(list, random) ==
  LET idx == converted(list)
  IN  [k \in 1..Len(idx) |-> toSatrec(list[idx[k]], random[idx[k]])]

slice(list, n) == SubSeq(list, 1, IF Len(list) < n THEN Len(list) ELSE n)

\* (s.satnum && typesBySatnum[s.satnum]) || ''
typeOf(s, types) ==
  IF "satnum" \in DOMAIN s /\ s.satnum # 0 /\ s.satnum \in DOMAIN types
  THEN types[s.satnum] ELSE <<>>

Dropped ==
  [null |-> TRUE, lon |-> 0, lat |-> 0, altM |-> 0, altScaledM |-> 0,
   cat |-> "none", color |-> <<>>]

\* one iteration of satrecs.map in tick, App.tsx:273-295
meshItem(s, t, types) ==
  LET gd == propagate(s.rec, t)
      altM == MathMax(0, Times(gd.height, 1000))
      typ == typeOf(s, types)
      normTyp == toUpperCase(trim(typ))
  IN  IF ~gd.pos THEN Dropped
      ELSE [null |-> FALSE, lon |-> gd.lon, lat |-> gd.lat, altM |-> altM,
            altScaledM |-> scaleAltitudeLog(altM),
            cat |-> pickCategory(normTyp, s.id, gd.height),
            color |-> pickColorByType(typ, s.id, gd.height)]

\* one iteration of satrecs.map in tick, part_001:365-376
scatterItem(s, t, types) ==
  LET gd == propagate(s.rec, t)
      altM == MathMax(0, Times(gd.height, 1000))
      typ == typeOf(s, types)
  IN  IF ~gd.pos THEN Dropped
      ELSE [null |-> FALSE, lon |-> gd.lon, lat |-> gd.lat, altM |-> altM,
            altScaledM |-> altM, cat |-> NoCat,
            color |-> pickColorByTypePalette(typ, s.id, gd.height)]

\* one iteration of the loop over satrecs and of coords.map in tick,
\* MapLibreGlobe.tsx:163-178
pointsItem(s, t, types) ==
  LET gd == propagate(s.rec, t)
      altM == Times(gd.height, 1000)
  IN  IF ~gd.pos THEN Dropped
      ELSE [null |-> FALSE, lon |-> gd.lon, lat |-> gd.lat, altM |-> altM,
            altScaledM |-> altM, cat |-> NoCat, color |-> <<>>]

\* one iteration of the loop over satrecs in tick, part_003:189-195
overlayCoord(s, t) ==
  LET gd == propagate(s.rec, t)
      altM == MathMax(0, Times(gd.height, 1000))
  IN  IF ~gd.pos THEN Dropped
      ELSE [null |-> FALSE, lon |-> gd.lon, lat |-> gd.lat, altM |-> altM,
            altScaledM |-> altM, cat |-> NoCat, color |-> <<>>]

\* coords.map((c, idx) => ...) in tick, part_003:202-208: the type is looked
\* up through satrecs[idx], idx being the index in coords
overlayItems(recs, t, types) ==
  LET coords == [i \in 1..Len(recs) |-> overlayCoord(recs[i], t)]
      idx(i) == Cardinality({ k \in 1..i : ~coords[k].null })
  IN  [i \in 1..Len(recs) |->
         IF coords[i].null THEN Dropped
         ELSE [coords[i] EXCEPT
                 !.color = overlayColor(typeOf(recs[idx(i)], types), recs[i].id,
                                        propagate(recs[i].rec, t).height)]]

item(v, s, t, types) ==
  CASE v = "mesh" -> meshItem(s, t, types)
    [] v = "scatter" -> scatterItem(s, t, types)
    [] v = "points" -> pointsItem(s, t, types)

mapped(v, recs, t, types) ==
  IF v = "overlay" THEN overlayItems(recs, t, types)
  ELSE [i \in 1..Len(recs) |-> item(v, recs[i], t, types)]

\* .filter(Boolean) and `if (!pos) continue'
Kept_zeroed(e) == TRUE

Kept(e) == ~e.null

\* position [lon, lat, altScaledM] (the mesh variant) or [lon, lat, altM]
\* (the variants without remap), and the colour; altM is kept beside them
RenderPoint(e) ==
  [lon |-> e.lon, lat |-> e.lat, altM |-> e.altM, altScaledM |-> e.altScaledM,
   color |-> e.color]

filtered_byTickCount(items) ==
  LET kept == SelectSeq(items, Kept)
  IN  [j \in 1..(IF ticks % 2 = 0 THEN Len(kept) ELSE 0) |-> RenderPoint(kept[j])]

filtered(items) ==
  LET kept == SelectSeq(items, Kept)
  IN  [j \in 1..Len(kept) |-> RenderPoint(kept[j])]

RECURSIVE keptIndices(_, _)
keptIndices(items, i) ==
  IF i > Len(items) THEN <<>>
  ELSE (IF Kept(items[i]) THEN << i >> ELSE <<>>) \o keptIndices(items, i + 1)

Categories == { "NAV", "GEO", "PAYLOAD", "ROCKET", "DEBRIS", "OTHER" }

ZeroCounts == [c \in Categories |-> 0]

RECURSIVE countCats(_, _)
countCats(items, acc) ==
  IF items = <<>> THEN acc
  ELSE LET e == Head(items)
       IN  countCats(Tail(items),
                     IF e.null \/ e.cat = NoCat THEN acc
                     ELSE [acc EXCEPT ![e.cat] = @ + 1])

\* the placeholder of the ScatterplotLayer variant, part_001:378-381
fallback ==
  << [lon |-> 0, lat |-> 0, altM |-> 160000, altScaledM |-> 160000,
      color |-> << 255, 0, 0, 255 >>] >>

scatterLayerData_noFallback(points) == points

scatterLayerData(points) == IF Len(points) > 0 THEN points ELSE fallback

\* MercatorCoordinate.fromLngLat([lon, lat], altM): x grows with the
\* longitude from the antimeridian, y with the distance from the north
\* pole, z with the altitude
fromLngLat(pt) == [x |-> 180 + pt.lon, y |-> 90 - pt.lat, z |-> pt.altM]

TickInit ==
  /\ variant \in Variants
  /\ tles \in SeqsUpTo(TleCatalogue, MaxTles)
  /\ typesBySatnum \in TypeMaps
  /\ \E random \in [1..MaxTles -> RandomTokens] :
       satrecs = parseTles(slice(tles, sliceCap(variant)), random)
  /\ now = 0 /\ tickNow = 0
  /\ data = <<>> /\ srcIdx = <<>> /\ shown = <<>>
  /\ counts = ZeroCounts /\ summaryTick = 0 /\ ticks = 0
  /\ everDropped = {} /\ cats = <<>>

TickIdle ==
  /\ variant = "mesh" /\ tles = <<>> /\ typesBySatnum = <<>> /\ satrecs = <<>>
  /\ now = 0 /\ tickNow = 0
  /\ data = <<>> /\ srcIdx = <<>> /\ shown = <<>>
  /\ counts = ZeroCounts /\ summaryTick = 0 /\ ticks = 0
  /\ everDropped = {} /\ cats = <<>>

tickCommon(items) ==
  /\ ticks < MaxTicks
  /\ ticks' = ticks + 1
  /\ tickNow' = now
  /\ data' = filtered(items)
  /\ srcIdx' = keptIndices(items, 1)
  /\ cats' = LET kept == SelectSeq(items, Kept)
             IN  [j \in 1..Len(kept) |-> kept[j].cat]
  /\ everDropped' = everDropped \cup { i \in 1..Len(items) : items[i].null }
  /\ UNCHANGED << variant, tles, typesBySatnum, satrecs, now >>

tickMesh ==
  /\ variant = "mesh"
  /\ \E items \in { mapped("mesh", satrecs, now, typesBySatnum) } :
       /\ tickCommon(items)
       /\ counts' = countCats(items, ZeroCounts)
       /\ summaryTick' = summaryTick + 1
       /\ shown' = filtered(items)
  /\ UNCHANGED layerVars
  /\ UNCHANGED << pickVars, remapVars, parseVars, compVars, runVars, loadVars >>

tickScatter ==
  /\ variant = "scatter"
  /\ \E items \in { mapped("scatter", satrecs, now, typesBySatnum) } :
       /\ tickCommon(items)
       /\ shown' = scatterLayerData(filtered(items))
  /\ UNCHANGED << counts, summaryTick >>
  /\ UNCHANGED layerVars
  /\ UNCHANGED << pickVars, remapVars, parseVars, compVars, runVars, loadVars >>

\* tick of the deck.gl overlay variant, part_003:185-217
tickOverlay ==
  /\ variant = "overlay"
  /\ \E items \in { mapped("overlay", satrecs, now, typesBySatnum) } :
       /\ tickCommon(items)
       /\ shown' = filtered(items)
  /\ UNCHANGED << counts, summaryTick >>
  /\ UNCHANGED layerVars
  /\ UNCHANGED << pickVars, remapVars, parseVars, compVars, runVars, loadVars >>

\* tick of the point-layer component, MapLibreGlobe.tsx:159-182
pointsTick ==
  /\ variant = "points"
  /\ \E items \in { mapped("points", satrecs, now, typesBySatnum) } :
       LET coords == filtered(items)
           world == [j \in 1..Len(coords) |-> fromLngLat(coords[j])]
       IN  /\ tickCommon(items)
           /\ shown' = world
           /\ setPositions(world)
  /\ UNCHANGED << counts, summaryTick >>

tickPoints ==
  /\ pointsTick
  /\ UNCHANGED << pickVars, remapVars, parseVars, compVars, runVars, loadVars >>

clock ==
  /\ now < MaxTime
  /\ now' = now + 1
  /\ UNCHANGED << variant, tles, typesBySatnum, satrecs, tickNow, data, srcIdx,
                  shown, counts, summaryTick, ticks, everDropped, cats >>
  /\ UNCHANGED << layerVars, pickVars, remapVars, parseVars, compVars, runVars, loadVars >>

(***************************************************************************)
(* The satrecs memo on its own.  Besides the three TLE components there is *)
(* the OMM component MapGlobe (part_001:470-478), whose entries carry      *)
(* OBJECT_ID, OBJECT_NAME and NORAD_CAT_ID and are converted by            *)
(* json2satrec.  Long entry lists repeat a short pattern.                  *)
(***************************************************************************)
OmmCatalogue ==
  { [OBJECT_ID |-> <<"1", "9", "9", "8", "-", "0", "6", "7", "A">>,
     OBJECT_NAME |-> <<"I", "S", "S">>, NORAD_CAT_ID |-> 25544,
     valid |-> TRUE, orbit |-> "leo"],
    [OBJECT_NAME |-> <<"G", "P", "S">>, NORAD_CAT_ID |-> 9,
     valid |-> TRUE, orbit |-> "flaky"],
    [NORAD_CAT_ID |-> 7, valid |-> TRUE, orbit |-> "geo"],
    [OBJECT_NAME |-> <<"B", "R", "O", "K", "E", "N">>, valid |-> FALSE] }

\* String(o.OBJECT_ID ?? o.OBJECT_NAME ?? Math.random())
ommId(o, random) ==
  IF "OBJECT_ID" \in DOMAIN o THEN o.OBJECT_ID
  ELSE IF "OBJECT_NAME" \in DOMAIN o THEN o.OBJECT_NAME
  ELSE random

parseOmms(list, random) ==
  LET idx == converted(list)
  IN  [k \in 1..Len(idx) |->
         [id |-> ommId(list[idx[k]], random[idx[k]]),
          rec |-> [orbit |-> list[idx[k]].orbit]]]

Components == Variants \cup { "omm" }

Repeat(pattern, n) == [i \in 1..n |-> pattern[((i - 1) % Len(pattern)) + 1]]

\* lengths just below, at and just above the two caps
LongLengths == { 199, 200, 201, 299, 300, 301 }

TlePattern ==
  << [name |-> <<"I", "S", "S">>, valid |-> TRUE, satnum |-> 25544, orbit |-> "leo"],
     [name |-> <<"B", "R", "O", "K", "E", "N">>, valid |-> FALSE],
     [valid |-> TRUE, orbit |-> "leo"],
     [valid |-> TRUE, satnum |-> 7, orbit |-> "geo"],
     [name |-> <<"B", "R", "O", "K", "E", "N">>, valid |-> FALSE],
     [name |-> <<"B", "R", "O", "K", "E", "N">>, valid |-> FALSE],
     [name |-> <<"g", "p", "s", " ", "b", "i", "i", "r", "-", "2">>, valid |-> TRUE, satnum |-> 9, orbit |-> "flaky"] >>

OmmPattern ==
  << [NORAD_CAT_ID |-> 7, valid |-> TRUE, orbit |-> "geo"],
     [OBJECT_NAME |-> <<"B", "R", "O", "K", "E", "N">>, valid |-> FALSE],
     [OBJECT_NAME |-> <<"G", "P", "S">>, NORAD_CAT_ID |-> 9,
      valid |-> TRUE, orbit |-> "flaky"] >>

EntryLists(c) ==
  IF c = "omm"
  THEN SeqsUpTo(OmmCatalogue, MaxTles) \cup { Repeat(OmmPattern, n) : n \in LongLengths }
  ELSE SeqsUpTo(TleCatalogue, MaxTles) \cup { Repeat(TlePattern, n) : n \in LongLengths }

TokenPatterns == { << t1, t2 >> : t1 \in RandomTokens, t2 \in RandomTokens }

ParseInit ==
  /\ component \in Components
  /\ entries \in EntryLists(component)
  /\ \E pattern \in TokenPatterns : tokens = Repeat(pattern, Len(entries))
  /\ records = <<>>
  /\ memoised = FALSE

ParseIdle ==
  /\ component = "mesh" /\ entries = <<>> /\ tokens = <<>>
  /\ records = <<>> /\ memoised = FALSE

\* the useMemo callback of satrecs
memoSatrecs ==
  /\ ~memoised
  /\ memoised' = TRUE
  /\ records' = IF component = "omm"
                THEN parseOmms(slice(entries, sliceCap(component)), tokens)
                ELSE parseTles(slice(entries, sliceCap(component)), tokens)
  /\ UNCHANGED << component, entries, tokens >>
  /\ UNCHANGED << layerVars, pickVars, tickVars, remapVars, compVars, runVars, loadVars >>

(***************************************************************************)
(* The point-layer component (MapLibreGlobe.tsx): the map effect creates   *)
(* the map and, on its load event, adds the custom layer and sets ready;   *)
(* the tick effect runs one tick and starts the interval timer.  React     *)
(* runs the cleanups of both effects in one synchronous commit, so no      *)
(* timer callback runs between them: unmount is one step.                  *)
(***************************************************************************)
Phases == { "created", "mounted", "ready", "running", "unmounted" }

CompInit ==
  /\ phase = "created" /\ timer = FALSE
  /\ variant = "points"
  /\ tles \in SeqsUpTo(TleCatalogue, MaxPts)
  /\ typesBySatnum = <<>>
  /\ \E random \in [1..MaxPts -> RandomTokens] :
       satrecs = parseTles(slice(tles, sliceCap(variant)), random)
  /\ now = 0 /\ tickNow = 0
  /\ data = <<>> /\ srcIdx = <<>> /\ shown = <<>>
  /\ counts = ZeroCounts /\ summaryTick = 0 /\ ticks = 0
  /\ everDropped = {} /\ cats = <<>>

CompIdle == phase = "created" /\ timer = FALSE

\* the map effect, lines 70-93 up to the load handler
mount ==
  /\ phase = "created"
  /\ phase' = "mounted"
  /\ UNCHANGED timer
  /\ UNCHANGED << layerVars, pickVars, tickVars, remapVars, parseVars, runVars, loadVars >>

\* map.on('load'): createSatellitePointLayer, map.addLayer, setReady(true)
load ==
  /\ phase = "mounted"
  /\ phase' = "ready"
  /\ onAdd
  /\ UNCHANGED timer
  /\ UNCHANGED << pickVars, tickVars, remapVars, parseVars, runVars, loadVars >>

\* the tick effect once ready: tick() and setInterval(tick, 1000)
tickEffect ==
  /\ phase = "ready"
  /\ phase' = "running"
  /\ pointsTick
  /\ timer' = TRUE
  /\ UNCHANGED << pickVars, remapVars, parseVars, runVars, loadVars >>

\* the interval timer fires
timerTick ==
  /\ timer
  /\ pointsTick
  /\ UNCHANGED << pickVars, remapVars, parseVars, compVars, runVars, loadVars >>

\* the map repaints the custom layer while it is added
repaint ==
  /\ phase \in { "ready", "running" }
  /\ render
  /\ UNCHANGED << pickVars, tickVars, remapVars, parseVars, compVars, runVars, loadVars >>

\* clearInterval(t) in the cleanup of the tick effect
timerAfterCleanup_leaked == timer

timerAfterCleanup == FALSE

\* unmount: the cleanup of the map effect (map.remove(), which removes the
\* custom layer) and the cleanup of the tick effect (clearInterval)
unmount ==
  /\ phase \in { "mounted", "ready", "running" }
  /\ phase' = "unmounted"
  /\ IF phase = "mounted" THEN UNCHANGED layerVars ELSE onRemove
  /\ timer' = timerAfterCleanup
  /\ UNCHANGED << pickVars, tickVars, remapVars, parseVars, runVars, loadVars >>

(***************************************************************************)
(* The data pipeline, scripts/satellite.ts: four fetches with retry run    *)
(* concurrently (Promise.all), then run() persists the datasets, writes    *)
(* index.json and updates the latest mirror.  Each step is one awaited     *)
(* operation.                                                              *)
(***************************************************************************)
Datasets == { "gpActive", "gpActiveTle", "satcatCsv", "supgp" }

IsJson(d) == d \in { "gpActive", "supgp" }

retries == 2

backoffMs == 1000

\* the index of the last iteration of the retry loop of a dataset
lastI(d) == IF IsJson(d) THEN retries ELSE 2

\* sleep(1000 * (i + 1)) of the text and CSV loops
textDelay_flat(i) == 1000

textDelay(i) == 1000 * (i + 1)

\* sleep(backoffMs * Math.pow(2, i)) of fetchJsonWithRetry
jsonDelay(i) == backoffMs * Pow2(i)

delay(d, i) == IF IsJson(d) THEN jsonDelay(i) ELSE textDelay(i)

\* what one attempt can end in: a rejected fetch, a response that is not
\* ok, a body that res.json() rejects, or a body
Failures(d) ==
  { "network error", "HTTP error" } \cup (IF IsJson(d) THEN { "bad JSON" } ELSE {})

\* a JSON array with rows, the empty JSON array, text with lines, no text
Bodies(d) == IF IsJson(d) THEN { "rows", "[]" } ELSE { "lines", "" }

PENDING == "pending"

NoData == "null"

\* the truthiness tested by if (gpActive), if (gpActiveTle), ...
Truthy(v) == v \notin { NoData, "" }

FileOf ==
  [ gpActive |-> "gp_active.json", gpActiveTle |-> "gp_active.tle",
    satcatCsv |-> "satcat_onorbit_payloads.csv", supgp |-> "supgp_spacex.json" ]

AllFiles == { FileOf[d] : d \in Datasets } \cup { "index.json" }

\* meta.files of index.json, lines 125-130: the four names, whatever was
\* fetched
IndexFiles == { FileOf[d] : d \in Datasets }

\* the awaited operations of run() after the fetches, lines 108-141
RunSteps ==
  << [op |-> "writeJsonFile", dir |-> "dir", data |-> "gpActive"],
     [op |-> "writeFile", dir |-> "dir", data |-> "gpActiveTle"],
     [op |-> "writeFile", dir |-> "dir", data |-> "satcatCsv"],
     [op |-> "writeJsonFile", dir |-> "dir", data |-> "supgp"],
     [op |-> "writeJsonFile", dir |-> "dir", data |-> "meta"],
     [op |-> "mkdir", dir |-> "latestDir", data |-> "meta"],
     [op |-> "writeJsonFile", dir |-> "latestDir", data |-> "meta"],
     [op |-> "writeJsonFile", dir |-> "latestDir", data |-> "gpActive"],
     [op |-> "writeFile", dir |-> "latestDir", data |-> "gpActiveTle"],
     [op |-> "writeFile", dir |-> "latestDir", data |-> "satcatCsv"],
     [op |-> "writeJsonFile", dir |-> "latestDir", data |-> "supgp"] >>

Returned == Len(RunSteps) + 1

Running == -1

\* the disk before the run: nothing, the snapshot of an earlier hour (the
\* latest mirror exists), or a run of the same hour (both exist)
PriorDisks ==
  { [dirs |-> {}, disk |-> {}],
    [dirs |-> { "latestDir" },
     disk |-> { << "latestDir", f >> : f \in AllFiles }],
    [dirs |-> { "dir", "latestDir" },
     disk |-> { << "latestDir", f >> : f \in AllFiles }
              \cup { << "dir", f >> : f \in AllFiles }] }

RunInit ==
  /\ fetchI = [d \in Datasets |-> 0]
  /\ attempts = [d \in Datasets |-> 0]
  /\ slept = [d \in Datasets |-> << >>]
  /\ fetched = [d \in Datasets |-> PENDING]
  /\ \E prior \in PriorDisks : dirs = prior.dirs /\ disk = prior.disk
  /\ written = {}
  /\ runStep = 0
  /\ exitCode = Running

RunIdle ==
  /\ fetchI = [d \in Datasets |-> 0]
  /\ attempts = [d \in Datasets |-> 0]
  /\ slept = [d \in Datasets |-> << >>]
  /\ fetched = [d \in Datasets |-> PENDING]
  /\ dirs = {} /\ disk = {} /\ written = {}
  /\ runStep = 0
  /\ exitCode = Running

\* one iteration of a retry loop: fetchJsonWithRetry lines 11-28, the text
\* loop lines 67-79, the CSV loop lines 85-97
fetchAttempt ==
  /\ exitCode = Running /\ runStep = 0
  /\ \E d \in Datasets :
       /\ fetched[d] = PENDING
       /\ attempts' = [attempts EXCEPT ![d] = @ + 1]
       /\ \E outcome \in Failures(d) \cup Bodies(d) :
            IF outcome \in Bodies(d)
            THEN /\ fetched' = [fetched EXCEPT ![d] = outcome]
                 /\ UNCHANGED << fetchI, slept >>
            ELSE IF fetchI[d] = lastI(d)
                 THEN /\ fetched' = [fetched EXCEPT ![d] = NoData]
                      /\ UNCHANGED << fetchI, slept >>
                 ELSE /\ slept' = [slept EXCEPT ![d] = Append(@, delay(d, fetchI[d]))]
                      /\ fetchI' = [fetchI EXCEPT ![d] = @ + 1]
                      /\ UNCHANGED fetched
  /\ UNCHANGED << dirs, disk, written, runStep, exitCode >>
  /\ UNCHANGED << layerVars, pickVars, tickVars, remapVars, parseVars, compVars, loadVars >>

\* Promise.all resolves once the four fetches have settled, line 62
settled ==
  /\ exitCode = Running /\ runStep = 0
  /\ \A d \in Datasets : fetched[d] # PENDING
  /\ runStep' = 1
  /\ UNCHANGED << fetchI, attempts, slept, fetched, dirs, disk, written, exitCode >>
  /\ UNCHANGED << layerVars, pickVars, tickVars, remapVars, parseVars, compVars, loadVars >>

\* whether the step is skipped by its if (...) test
Skipped(s) == s.data # "meta" /\ ~Truthy(fetched[s.data])

fileName(s) == IF s.data = "meta" THEN "index.json" ELSE FileOf[s.data]

\* writeJsonFile, lines 45-48: mkdir of the directory, then fs.writeFile
writeJsonFile ==
  /\ exitCode = Running /\ runStep \in 1..Len(RunSteps)
  /\ LET s == RunSteps[runStep]
     IN  /\ s.op = "writeJsonFile"
         /\ IF Skipped(s)
            THEN UNCHANGED << dirs, disk, written >>
            ELSE /\ dirs' = dirs \cup { s.dir }
                 /\ disk' = disk \cup { << s.dir, fileName(s) >> }
                 /\ written' = written \cup { << s.dir, fileName(s) >> }
  /\ runStep' = runStep + 1
  /\ UNCHANGED << fetchI, attempts, slept, fetched, exitCode >>
  /\ UNCHANGED << layerVars, pickVars, tickVars, remapVars, parseVars, compVars, loadVars >>

\* fs.writeFile, lines 109, 110, 139, 140: rejects when the directory does
\* not exist; the rejection leaves run() and reaches run().catch, lines
\* 145-148, which exits with code 1
writeFile ==
  /\ exitCode = Running /\ runStep \in 1..Len(RunSteps)
  /\ LET s == RunSteps[runStep]
     IN  /\ s.op = "writeFile"
         /\ IF Skipped(s)
            THEN /\ runStep' = runStep + 1
                 /\ UNCHANGED << disk, written, exitCode >>
            ELSE IF s.dir \in dirs
                 THEN /\ disk' = disk \cup { << s.dir, fileName(s) >> }
                      /\ written' = written \cup { << s.dir, fileName(s) >> }
                      /\ runStep' = runStep + 1
                      /\ UNCHANGED exitCode
                 ELSE /\ exitCode' = 1
                      /\ UNCHANGED << disk, written, runStep >>
  /\ UNCHANGED << fetchI, attempts, slept, fetched, dirs >>
  /\ UNCHANGED << layerVars, pickVars, tickVars, remapVars, parseVars, compVars, loadVars >>

\* fs.mkdir(latestDir, { recursive: true }), line 136
mkdir ==
  /\ exitCode = Running /\ runStep \in 1..Len(RunSteps)
  /\ LET s == RunSteps[runStep]
     IN  /\ s.op = "mkdir"
         /\ dirs' = dirs \cup { s.dir }
  /\ runStep' = runStep + 1
  /\ UNCHANGED << fetchI, attempts, slept, fetched, disk, written, exitCode >>
  /\ UNCHANGED << layerVars, pickVars, tickVars, remapVars, parseVars, compVars, loadVars >>

\* run() has returned: the process ends normally
exit ==
  /\ exitCode = Running /\ runStep = Returned
  /\ exitCode' = 0
  /\ UNCHANGED << fetchI, attempts, slept, fetched, dirs, disk, written, runStep >>
  /\ UNCHANGED << layerVars, pickVars, tickVars, remapVars, parseVars, compVars, loadVars >>

(***************************************************************************)
(* LoadTleAndRender (part_002:85-127) and the tick effect of the globe it  *)
(* renders.  The loader awaits both responses, sets tles, then awaits the  *)
(* JSON body and sets typesBySatnum; React renders between the two.  The   *)
(* tick effect runs again when one of its dependencies has changed: it     *)
(* clears the timer of the previous run, ticks once and starts a timer.    *)
(***************************************************************************)
Responses == { "ok", "HTTP error", "network error" }

GlobeVariants == { "mesh", "points", "overlay" }

EmptyTypes == "{}"

LoadedTypes == "map"

NoDeps == << >>

LoadInit ==
  /\ tleRes = PENDING /\ gpRes = PENDING
  /\ loaderPc = "fetching"
  /\ loaderTles = "null" /\ loaderTypes = EmptyTypes /\ err = FALSE
  /\ globeVariant \in GlobeVariants
  /\ globe = "none"
  /\ timers = {} /\ cleared = {} /\ closures = << >> /\ effectDeps = NoDeps
  /\ globeTicks = 0 /\ tickBy = 0 /\ tickUsed = "none"

LoadIdle ==
  /\ tleRes = PENDING /\ gpRes = PENDING
  /\ loaderPc = "fetching"
  /\ loaderTles = "null" /\ loaderTypes = EmptyTypes /\ err = FALSE
  /\ globeVariant = "mesh"
  /\ globe = "none"
  /\ timers = {} /\ cleared = {} /\ closures = << >> /\ effectDeps = NoDeps
  /\ globeTicks = 0 /\ tickBy = 0 /\ tickUsed = "none"

\* part_002:91-107: Promise.all of the two fetches rejects when either
\* rejects; a TLE response that is not ok throws; otherwise setTles(out)
loaderFetched ==
  /\ loaderPc = "fetching"
  /\ \E tle \in Responses, gp \in Responses :
       /\ tleRes' = tle /\ gpRes' = gp
       /\ IF tle = "network error" \/ gp = "network error" \/ tle # "ok"
          THEN /\ err' = TRUE
               /\ loaderPc' = "failed"
               /\ UNCHANGED loaderTles
          ELSE /\ loaderTles' = "out"
               /\ loaderPc' = IF gp = "ok" THEN "gpJson" ELSE "done"
               /\ UNCHANGED err
  /\ UNCHANGED << loaderTypes, globeVariant, globe, timers, cleared, closures,
                  effectDeps, globeTicks, tickBy, tickUsed >>
  /\ UNCHANGED << layerVars, pickVars, tickVars, remapVars, parseVars, compVars, runVars >>

\* part_002:108-117: await gpRes.json() and the loop over its entries; a
\* body that is not JSON, or not iterable, throws into the catch
gpDecoded ==
  /\ loaderPc = "gpJson"
  /\ \E body \in { "array", "malformed" } :
       IF body = "array"
       THEN /\ loaderTypes' = LoadedTypes
            /\ loaderPc' = "done"
            /\ UNCHANGED err
       ELSE /\ err' = TRUE
            /\ loaderPc' = "failed"
            /\ UNCHANGED loaderTypes
  /\ UNCHANGED << tleRes, gpRes, loaderTles, globeVariant, globe, timers, cleared,
                  closures, effectDeps, globeTicks, tickBy, tickUsed >>
  /\ UNCHANGED << layerVars, pickVars, tickVars, remapVars, parseVars, compVars, runVars >>

\* part_002:124-126: the globe is rendered once tles is set and err is not
globeMount ==
  /\ globe = "none" /\ ~err /\ loaderTles = "out"
  /\ globe' = "mounted"
  /\ UNCHANGED << tleRes, gpRes, loaderPc, loaderTles, loaderTypes, err,
                  globeVariant, timers, cleared, closures, effectDeps,
                  globeTicks, tickBy, tickUsed >>
  /\ UNCHANGED << layerVars, pickVars, tickVars, remapVars, parseVars, compVars, runVars >>

\* the load event of the map: setReady(true)
globeLoad ==
  /\ globe = "mounted"
  /\ globe' = "ready"
  /\ UNCHANGED << tleRes, gpRes, loaderPc, loaderTles, loaderTypes, err,
                  globeVariant, timers, cleared, closures, effectDeps,
                  globeTicks, tickBy, tickUsed >>
  /\ UNCHANGED << layerVars, pickVars, tickVars, remapVars, parseVars, compVars, runVars >>

\* the dependency list of the tick effect: [ready, satrecs, typesBySatnum,
\* sphere] in App.tsx:367, [ready, satrecs] in MapLibreGlobe.tsx:189 and
\* part_003:225
depsNow ==
  IF globeVariant = "mesh" THEN << "ready", loaderTypes >> ELSE << "ready" >>

\* clearInterval(t) in the cleanup of the tick effect
timersAfterCleanup_leaked == timers

timersAfterCleanup == timers \ DOMAIN closures

\* the tick effect of a ready globe, run because a dependency changed: the
\* cleanup of the previous run, then tick() and setInterval
tickEffectRun ==
  /\ globe = "ready" /\ effectDeps # depsNow
  /\ LET t == Len(closures) + 1
     IN  /\ cleared' = cleared \cup DOMAIN closures
         /\ timers' = timersAfterCleanup \cup { t }
         /\ closures' = Append(closures, loaderTypes)
         /\ tickBy' = t
  /\ effectDeps' = depsNow
  /\ globeTicks' = globeTicks + 1
  /\ tickUsed' = loaderTypes
  /\ UNCHANGED << tleRes, gpRes, loaderPc, loaderTles, loaderTypes, err,
                  globeVariant, globe >>
  /\ UNCHANGED << layerVars, pickVars, tickVars, remapVars, parseVars, compVars, runVars >>

\* an interval timer fires: tick of the closure that created it (in App.tsx
\* behind `alive &&')
timerFires ==
  /\ globeTicks < MaxTicks
  /\ \E t \in timers :
       IF globeVariant = "mesh" /\ t \in cleared
       THEN UNCHANGED << globeTicks, tickBy, tickUsed >>
       ELSE /\ globeTicks' = globeTicks + 1
            /\ tickBy' = t
            /\ tickUsed' = closures[t]
  /\ UNCHANGED << tleRes, gpRes, loaderPc, loaderTles, loaderTypes, err,
                  globeVariant, globe, timers, cleared, closures, effectDeps >>
  /\ UNCHANGED << layerVars, pickVars, tickVars, remapVars, parseVars, compVars, runVars >>

\* part_002:124: with err set the loader renders the error text instead of
\* the globe, which is unmounted: the cleanups of its effects run
globeUnmount ==
  /\ globe \in { "mounted", "ready" } /\ err
  /\ globe' = "unmounted"
  /\ cleared' = cleared \cup DOMAIN closures
  /\ timers' = timersAfterCleanup
  /\ UNCHANGED << tleRes, gpRes, loaderPc, loaderTles, loaderTypes, err,
                  globeVariant, closures, effectDeps, globeTicks, tickBy, tickUsed >>
  /\ UNCHANGED << layerVars, pickVars, tickVars, remapVars, parseVars, compVars, runVars >>

InitTick == LayerInit /\ PickIdle /\ TickInit /\ RemapIdle /\ ParseIdle /\ CompIdle /\ RunIdle /\ LoadIdle

NextTick == tickMesh \/ tickScatter \/ tickPoints \/ tickOverlay \/ clock

SpecTick == InitTick /\ [][NextTick]_vars

Init == LayerInit /\ PickIdle /\ TickIdle /\ RemapIdle /\ ParseIdle /\ CompIdle /\ RunIdle /\ LoadIdle

Next == hostOnAdd \/ hostRender \/ hostOnRemove \/ hostSetPositions

Spec == Init /\ [][Next]_vars

InitPick == LayerInit /\ PickInit /\ TickIdle /\ RemapIdle /\ ParseIdle /\ CompIdle /\ RunIdle /\ LoadIdle

NextPick == classify

SpecPick == InitPick /\ [][NextPick]_vars

InitRemap == LayerInit /\ PickIdle /\ TickIdle /\ RemapInit /\ ParseIdle /\ CompIdle /\ RunIdle /\ LoadIdle

NextRemap == remap

SpecRemap == InitRemap /\ [][NextRemap]_vars

InitParse == LayerInit /\ PickIdle /\ TickIdle /\ RemapIdle /\ ParseInit /\ CompIdle /\ RunIdle /\ LoadIdle

NextParse == memoSatrecs

SpecParse == InitParse /\ [][NextParse]_vars

InitRun ==
  LayerInit /\ PickIdle /\ TickIdle /\ RemapIdle /\ ParseIdle /\ CompIdle /\ RunInit
  /\ LoadIdle

NextRun == fetchAttempt \/ settled \/ writeJsonFile \/ writeFile \/ mkdir \/ exit

SpecRun == InitRun /\ [][NextRun]_vars

InitLoad ==
  LayerInit /\ PickIdle /\ TickIdle /\ RemapIdle /\ ParseIdle /\ CompIdle /\ RunIdle
  /\ LoadInit

NextLoad ==
  loaderFetched \/ gpDecoded \/ globeMount \/ globeLoad \/ tickEffectRun
  \/ timerFires \/ globeUnmount

SpecLoad == InitLoad /\ [][NextLoad]_vars

InitComp == LayerInit /\ PickIdle /\ RemapIdle /\ ParseIdle /\ CompInit /\ RunIdle /\ LoadIdle

NextComp ==
  mount \/ load \/ tickEffect \/ timerTick \/ repaint \/ unmount \/ clock

SpecComp == InitComp /\ [][NextComp]_vars

(***************************************************************************)
(* Claims about the point layer, checked under Spec.                       *)
(***************************************************************************)
\* C1 (as stated): every collection passed to setPositions is uploaded
\* exactly once, counting the uploads of onAdd and of render: none is
\* uploaded twice, and a collection is not replaced before it was uploaded.
C1_UploadedExactlyOnce ==
  [][ /\ (posId' > 0 => uploads' <= 1)
      /\ ((posId > 0 /\ posId' = posId + 1) => uploads = 1) ]_vars

\* C1 (amended): render uploads each collection passed to setPositions at
\* most once: the dirty flag is set exactly while the current collection
\* has not been uploaded by render, and every further upload of a collection
\* is one done by onAdd at an attachment.
C1_RenderUploadsAtMostOnce ==
  /\ renderUploads <= 1
  /\ uploads <= renderUploads + attachCount
  /\ posId > 0 => renderUploads = (IF needsUpload THEN 0 ELSE 1)

C1_Witness ==
  /\ op = "render"
  /\ program \in glLinked
  /\ posId >= 2
  /\ "bufferData" \in calls
  /\ renderUploads = 1
  /\ uploads = 1
  /\ drawCount > 0

\* C2: on an attached layer, a render with no setPositions call since the
\* previous render of the attached layer uploads nothing and passes the same
\* point count to the draw as that previous render; render uploads only
\* when the dirty flag is set.
C2_CleanRenderRedraws ==
  [][ (op' = "render" /\ Attached)
        => /\ (~setSinceRender /\ prevDraw >= 0)
                => /\ ~needsUpload
                   /\ uploads' = uploads
                   /\ glBuf' = glBuf
                   /\ "bufferData" \notin calls'
                   /\ drawCount' = prevDraw
           /\ (uploads' # uploads => needsUpload) ]_vars

C2_Witness ==
  /\ op = "render"
  /\ program \in glLinked
  /\ Attached
  /\ ~setSinceRender
  /\ "bufferData" \notin calls
  /\ drawCount > 0
  /\ renderUploads = 1

\* C3: whenever render issues a draw call with count n, the GPU position
\* buffer and the GPU colour buffer hold exactly the n points of the most
\* recent setPositions call.
C3_DrawnBufferIsLastSet ==
  (op = "render" /\ "drawArrays" \in calls)
    => /\ buffer \in DOMAIN glBuf
       /\ colorBuffer \in DOMAIN glBuf
       /\ drawCount = Len(lastSet)
       /\ glBuf[buffer] = PosArray(lastSet)
       /\ glBuf[colorBuffer] = ColArray(lastSet)
       /\ Len(glBuf[buffer]) = 3 * drawCount
       /\ Len(glBuf[colorBuffer]) = 3 * drawCount

C3_Witness ==
  /\ op = "render"
  /\ program \in glLinked
  /\ "drawArrays" \in calls
  /\ drawCount = MaxPts
  /\ posId >= 2
  /\ removed

\* C4 (as stated): once onRemove has run on an attached instance, the
\* instance is never ATTACHED again and its render calls draw nothing.
C4_DisposedIsFinal ==
  removed => /\ ~Attached
             /\ (op = "render" => drawCount = 0)

\* C4 (amended): the lifecycle is UNATTACHED -> ATTACHED -> UNATTACHED:
\* onRemove leaves the instance without GL context and without GPU handles,
\* render on an unattached instance draws nothing, and only a later onAdd
\* on the same instance makes it ATTACHED again, with newly created GPU
\* objects.
C4_DetachedUntilReadded ==
  [][ /\ (op' = "onRemove"
            => gl' = NULL /\ program' = NULL /\ buffer' = NULL
               /\ colorBuffer' = NULL)
      /\ ((~Attached /\ op' = "render") => (drawCount' = 0 /\ calls' = {}))
      /\ ((~Attached /\ Attached')
            => /\ op' = "onAdd"
               /\ {program', buffer', colorBuffer'} \cap glLive = {}
               /\ {program', buffer', colorBuffer'} \subseteq glLive') ]_vars

C4_Witness ==
  /\ removed
  /\ program \in glLinked
  /\ Attached
  /\ op = "render"
  /\ drawCount > 0

CreatedInOnAdd ==
  UNION { { Handle("program", n), Handle("buffer", n), Handle("colorBuffer", n) }
          : n \in 1..attachCount }

\* C5: after onRemove on an attached layer, the shader program, the position
\* buffer and the colour buffer created in onAdd have all been deleted; none
\* remains allocated.
C5_AllHandlesReleased ==
  (op = "onRemove" /\ removed) => CreatedInOnAdd \cap glLive = {}

\* C6: if shader compilation or program linking failed in onAdd, the failure
\* is logged and every later render of that layer is a no-op: no useProgram,
\* no buffer upload, no draw call.
C6_FailedProgramRendersNothing ==
  (program # NULL /\ program \notin glLinked)
    => /\ errorLog # {}
       /\ (op = "render" => (calls = {} /\ drawCount = 0))

(***************************************************************************)
(* Claims about the per-tick pipeline, checked under SpecTick.             *)
(***************************************************************************)
Propagated(t) == { i \in 1..Len(satrecs) : propagate(satrecs[i].rec, t).pos }

\* C7: in every tick the RenderPoint collection holds exactly one point for
\* each record whose propagation returned a position at the tick's timestamp
\* and none for a record whose propagation failed, so it is never larger
\* than the record list; a tick leaves the record list unchanged, so a
\* record dropped in one tick is evaluated again in the next.
C7_OnePointPerPropagatedRecord ==
  [][ (ticks' = ticks + 1)
        => /\ satrecs' = satrecs
           /\ Len(data') = Cardinality(Propagated(now))
           /\ Len(srcIdx') = Len(data')
           /\ { srcIdx'[j] : j \in 1..Len(srcIdx') } = Propagated(now)
           /\ \A j \in 1..Len(data') :
                /\ data'[j].lon = propagate(satrecs[srcIdx'[j]].rec, now).lon
                /\ \A k \in 1..Len(data') : j < k => srcIdx'[j] < srcIdx'[k]
           /\ Len(data') <= Len(satrecs) ]_vars

C7_Witness ==
  /\ ticks >= 2
  /\ Len(satrecs) = 2
  /\ Len(data) = 2
  /\ \E j \in 1..Len(srcIdx) : srcIdx[j] \in everDropped

\* C8: with zero valid element records, or an empty point collection, the
\* renderer is handed no point, no placeholder point is displayed, and
\* render issues no draw call.
C8_ZeroPointsDrawn ==
  /\ (ticks > 0 /\ (Len(satrecs) = 0 \/ Len(data) = 0)) => Len(shown) = 0
  /\ (op = "render" /\ Len(positions) = 0) => "drawArrays" \notin calls

\* C9: no RenderPoint is produced from a geodetic result whose height is
\* negative or NaN; such an object is discarded from the tick.
C9_NoPointFromInvalidHeight ==
  ticks > 0 =>
    \A j \in 1..Len(srcIdx) :
      LET h == propagate(satrecs[srcIdx[j]].rec, tickNow).height
      IN  h # NaN /\ h >= 0

(***************************************************************************)
(* Claims about the classifier, checked under SpecPick.                    *)
(***************************************************************************)
\* C10: an object whose name contains a navigation-constellation name, in
\* any letter case, is classified NAV for every altitude, also above the
\* GEO threshold, and for every object-type string.
C10_NavNameIsNav ==
  (pCat # NoCat /\ pName \in NavNames) => pCat = "NAV"

C10_Witness ==
  /\ pCat = "NAV"
  /\ pName = <<"n", "a", "v", "s", "t", "a", "r", " ", "4", "3">>
  /\ pAlt = 35786
  /\ pType = <<"R", "O", "C", "K", "E", "T", " ", "B", "O", "D", "Y">>

\* C11: an object whose name matches no navigation pattern is classified
\* GEO exactly when its true altitude is strictly greater than 30,000 km,
\* whatever its object-type string: a type containing PAYLOAD, ROCKET or
\* DEBRIS does not override GEO, and at 30,000 km or below it is never GEO.
C11_GeoIffAboveThreshold ==
  (pCat # NoCat /\ pName \in OtherNames)
    => (pCat = "GEO" <=> (pAlt # NaN /\ pAlt > 30000))

C11_Witness ==
  /\ pCat = "GEO"
  /\ pName = <<"S", "T", "A", "R", "L", "I", "N", "K", "-", "1">>
  /\ pAlt = 30001
  /\ pType = <<"P", "A", "Y", "L", "O", "A", "D">>

\* C12: for a non-navigation name and a true altitude at or below the GEO
\* threshold the category is never NAV or GEO and is fixed by the type
\* string alone, case-insensitively, in the order PAYLOAD, ROCKET, DEBRIS,
\* OTHER (an empty type gives OTHER); being a function of the inputs, equal
\* inputs give equal categories.
C12_TypeOrderBelowGeo ==
  (pCat # NoCat /\ pName \in OtherNames /\ pAlt # NaN /\ pAlt <= 30000)
    => LET t == toUpperCase(pType)
       IN  /\ pCat \notin { "NAV", "GEO" }
           /\ pCat = IF includes(t, <<"P", "A", "Y", "L", "O", "A", "D">>) THEN "PAYLOAD"
                     ELSE IF includes(t, <<"R", "O", "C", "K", "E", "T">>) THEN "ROCKET"
                     ELSE IF includes(t, <<"D", "E", "B", "R", "I", "S">>) THEN "DEBRIS"
                     ELSE "OTHER"
           /\ (pType = <<>> => pCat = "OTHER")

C12_Witness ==
  /\ pCat = "PAYLOAD"
  /\ pName = <<"I", "S", "S">>
  /\ pAlt = 30000
  /\ pType = <<"D", "e", "b", "r", "i", "s", "/", "R", "o", "c", "k", "e", "t", "/", "P", "a", "y", "l", "o", "a", "d">>

(***************************************************************************)
(* Claims about categories and colours in a tick, checked under SpecTick.  *)
(***************************************************************************)
CategoryColor(cat) ==
  CASE cat = "NAV" -> << 255, 80, 80, 255 >>
    [] cat = "GEO" -> << 255, 220, 0, 255 >>
    [] OTHER -> << 255, 150, 50, 255 >>

\* C13: in a tick of the globe component the colour of every RenderPoint is
\* the fixed RGBA constant of the category that the same tick computed and
\* counted for its object (from the trimmed, upper-cased type string, while
\* the colouring receives the raw one), so two points of one category have
\* one colour, and the counters tally exactly these categories.
C13_ColorIsOfCountedCategory ==
  (variant = "mesh" /\ ticks > 0)
    => /\ Len(cats) = Len(data)
       /\ \A j \in 1..Len(data) :
            /\ cats[j] \in Categories
            /\ data[j].color = CategoryColor(cats[j])
       /\ \A i, j \in 1..Len(data) :
            cats[i] = cats[j] => data[i].color = data[j].color
       /\ \A c \in Categories :
            counts[c] = Cardinality({ j \in 1..Len(cats) : cats[j] = c })

C13_Witness ==
  /\ variant = "mesh"
  /\ ticks > 0
  /\ typesBySatnum # <<>>
  /\ \E i, j \in 1..Len(data) :
       /\ cats[i] = "NAV" /\ cats[j] = "PAYLOAD"
       /\ data[i].color # data[j].color
       /\ satrecs[srcIdx[j]].satnum = 25544

(***************************************************************************)
(* Claims about the altitude remap, checked under SpecRemap.               *)
(***************************************************************************)
\* C14: the altitude remap is monotonic non-decreasing over all altitudes,
\* negative ones and ones above the configured maximum included, maps
\* altitude 0 to the shell minimum and the configured maximum altitude to
\* the shell maximum, and its value for one altitude does not depend on the
\* other altitude remapped with it.
C14_RemapMonotonicWithFixedEnds ==
  scaledLo # NotScaled
    => LET shellMin == IF curve = "piecewise" THEN 120000 ELSE 200000
           shellMax == IF curve = "piecewise" THEN 420000 ELSE 280000
           maxAlt == IF curve = "piecewise" THEN 35786000 ELSE 100000000
       IN  /\ (altLo # NaN /\ altHi # NaN /\ altLo <= altHi) => scaledLo <= scaledHi
           /\ altLo = altHi => scaledLo = scaledHi
           /\ altLo = 0 => scaledLo = shellMin
           /\ altLo = maxAlt => scaledLo = shellMax
           /\ altHi = 0 => scaledHi = shellMin
           /\ altHi = maxAlt => scaledHi = shellMax

C14_Witness ==
  /\ curve = "piecewise"
  /\ altLo = 400000 /\ altHi = 11000000
  /\ scaledLo # NotScaled
  /\ 120000 < scaledLo /\ scaledLo < scaledHi /\ scaledHi < 420000

Considered ==
  LET cap == IF component \in { "points", "overlay", "omm" } THEN 200 ELSE 300
  IN  IF Len(entries) < cap THEN Len(entries) ELSE cap

\* the considered entries that convert, in input order
ValidIdx == SelectSeq([i \in 1..Considered |-> i], LAMBDA i : entries[i].valid)

\* C16: parsing a list of raw entries yields a record list for every input:
\* an entry whose conversion throws is skipped, the others are kept in
\* input order, and only the first N entries are considered (N = 300, or
\* 200 in the point-layer, overlay and OMM components), so there are at most
\* min(N, input length) records.
C16_ParseSkipsAndCaps ==
  memoised
    => /\ Len(records) = Len(ValidIdx)
       /\ \A k \in 1..Len(records) :
            records[k].rec.orbit = entries[ValidIdx[k]].orbit
       /\ Len(records) <= Considered
       /\ Len(records) <= Len(entries)
       /\ Len(records) <= (IF component \in { "points", "overlay", "omm" } THEN 200 ELSE 300)

C16_Witness ==
  /\ memoised
  /\ component = "mesh"
  /\ Len(entries) = 301
  /\ entries[301].valid
  /\ ~entries[2].valid
  /\ Len(records) = 171

\* C17: the identifier of a record is the name given in its entry when there
\* is one, otherwise the entry's numeric catalog number, and a random token
\* only when the entry has neither.
C17_IdFromNameThenCatalogNumber ==
  memoised
    => \A k \in 1..Len(ValidIdx) :
         LET e == entries[ValidIdx[k]]
             named == "name" \in DOMAIN e \/ "OBJECT_NAME" \in DOMAIN e
             numbered == "satnum" \in DOMAIN e \/ "NORAD_CAT_ID" \in DOMAIN e
         IN  /\ k <= Len(records)
             /\ records[k].id =
                  IF named THEN (IF "name" \in DOMAIN e THEN e.name ELSE e.OBJECT_NAME)
                  ELSE IF numbered
                  THEN numberToString(IF "satnum" \in DOMAIN e THEN e.satnum
                                      ELSE e.NORAD_CAT_ID)
                  ELSE tokens[ValidIdx[k]]

C19_BoundedRetryWithBackoff ==
  [][ \A d \in Datasets :
        /\ attempts'[d] <= 3
        /\ \A k \in 1..Len(slept'[d]) : slept'[d][k] = backoffMs * Pow2(k - 1)
        /\ (attempts'[d] > attempts[d] => Len(slept[d]) = attempts[d])
        /\ (fetched'[d] = NoData => attempts'[d] = 3 /\ Len(slept'[d]) = 2)
        /\ (fetched[d] # PENDING =>
              /\ attempts'[d] = attempts[d]
              /\ slept'[d] = slept[d]
              /\ fetched'[d] = fetched[d])
        /\ (runStep' = 0 => exitCode' = Running) ]_vars

C19_Witness ==
  /\ fetched["gpActive"] = NoData /\ slept["gpActive"] = << 1000, 2000 >>
  /\ fetched["gpActiveTle"] = NoData /\ slept["gpActiveTle"] = << 1000, 2000 >>
  /\ fetched["satcatCsv"] = "lines" /\ attempts["satcatCsv"] = 3
  /\ runStep >= 1

\* C20: once the fetches have settled with every attempt of some dataset
\* failed, the process does not exit with an error, the file of a failed
\* dataset is not written, and when the run has ended every fetched dataset
\* and index.json have been written to the snapshot directory.
C20_RunCompletesWithoutFailedDataset ==
  (runStep >= 1 /\ \E d \in Datasets : fetched[d] = NoData) =>
    /\ exitCode # 1
    /\ \A d \in Datasets :
         fetched[d] = NoData =>
           << "dir", FileOf[d] >> \notin written
           /\ << "latestDir", FileOf[d] >> \notin written
    /\ (exitCode = 0 =>
          /\ << "dir", "index.json" >> \in written
          /\ \A d \in Datasets :
               fetched[d] # NoData => << "dir", FileOf[d] >> \in written)

\* C21: after a completed run the latest directory mirrors the snapshot the
\* run wrote: it holds index.json and exactly the dataset files that the run
\* wrote to the snapshot directory, and each of them was written by the run.
C21_LatestMirrorsSnapshot ==
  exitCode = 0 =>
    /\ { f \in AllFiles : << "latestDir", f >> \in disk }
         = { f \in AllFiles : << "dir", f >> \in written }
    /\ \A f \in AllFiles :
         << "latestDir", f >> \in disk => << "latestDir", f >> \in written

\* C30: when the run has ended, in each directory in which it wrote
\* index.json every file name listed under files in that index is a file
\* of that directory written by the same run.
C30_IndexedFilesWrittenByRun ==
  exitCode = 0 =>
    \A dn \in { "dir", "latestDir" } :
      << dn, "index.json" >> \in written =>
        \A f \in IndexFiles : << dn, f >> \in disk /\ << dn, f >> \in written

\* C24: onRemove on a layer that is not attached (never attached, or already
\* removed) performs no GL call, logs no error, releases nothing, and leaves
\* the stored positions, colours and the dirty flag unchanged.
C24_RemoveUnattachedIsNoOp ==
  [][ (op' = "onRemove" /\ gl = NULL) =>
        /\ calls' = {}
        /\ errorLog' = errorLog
        /\ glLive' = glLive /\ glBuf' = glBuf
        /\ positions' = positions /\ colors' = colors
        /\ needsUpload' = needsUpload
        /\ gl' = NULL /\ program' = NULL /\ buffer' = NULL ]_vars

C24_Witness ==
  /\ op = "onRemove" /\ calls = {}
  /\ removed /\ gl = NULL
  /\ posId >= 1 /\ needsUpload /\ Len(positions) > 0

\* C25: a collection passed to setPositions while the layer is not attached
\* is not lost: that setPositions stores it, sets the dirty flag and uploads
\* nothing; a render while the layer is not attached makes no GL call and
\* leaves the stored arrays and the dirty flag unchanged; the render that
\* directly follows onAdd uploads and draws exactly the collection of the
\* most recent setPositions.
C25_DetachedCollectionIsKept ==
  [][ /\ (op' = "setPositions" /\ gl = NULL /\ posId' = posId + 1
            => /\ positions' = PosArray(lastSet')
               /\ colors' = ColArray(lastSet')
               /\ needsUpload'
               /\ glBuf' = glBuf
               /\ "bufferData" \notin calls')
      /\ (op' = "render" /\ gl = NULL
            => /\ positions' = positions /\ colors' = colors
               /\ needsUpload' = needsUpload
               /\ calls' = {} /\ drawCount' = 0)
      /\ (op = "onAdd" /\ op' = "render"
            => /\ drawCount' = Len(lastSet)
               /\ (Len(lastSet) > 0 => "drawArrays" \in calls')
               /\ glBuf'[buffer] = PosArray(lastSet)
               /\ glBuf'[colorBuffer] = ColArray(lastSet)
               /\ ~needsUpload') ]_vars

C25_Witness ==
  /\ op = "render" /\ "drawArrays" \in calls
  /\ attachCount = 1 /\ ~removed
  /\ posId >= 1 /\ drawCount = MaxPts
  /\ uploads = 2 /\ renderUploads = 1

\* C29: after any sequence of layer operations the position array and the
\* colour array have the same length, 3 times the number of points of the
\* most recent setPositions call (0 before any call); they hold x, y, z and
\* r, g, b of each point in order, with 0 for each colour component the
\* point does not have.
C29_ArraysMatchLastSet ==
  /\ Len(positions) = Len(colors)
  /\ Len(positions) = 3 * Len(lastSet)
  /\ (posId = 0 => Len(positions) = 0)
  /\ \A k \in 1..Len(lastSet) :
       LET p == lastSet[k]
           Colour(f, v) == IF f \in DOMAIN p THEN v = p[f] ELSE v = 0
       IN  /\ positions[3 * k - 2] = p.x
           /\ positions[3 * k - 1] = p.y
           /\ positions[3 * k] = p.z
           /\ Colour("r", colors[3 * k - 2])
           /\ Colour("g", colors[3 * k - 1])
           /\ Colour("b", colors[3 * k])

C29_Witness ==
  /\ posId = MaxSets /\ removed /\ op = "render"
  /\ Len(lastSet) = MaxPts
  /\ "r" \notin DOMAIN lastSet[1]
  /\ Len(colors) = 3 * MaxPts /\ colors[1] = 0

\* C26: in the piecewise remap the bands join without a jump: at LEO_MAX_M
\* both adjacent formulas give LEO_FRAC and at MEO_MAX_M both give MEO_FRAC;
\* for every input the clamped altitude has a shell fraction in [0, 1] and
\* the output lies in [ATMOSPHERE_TOP_M, ATMOSPHERE_TOP_M + SHELL_THICKNESS_M].
C26_BandsJoinAndStayInShell ==
  (curve = "piecewise" /\ scaledLo # NotScaled) =>
    /\ leoFraction(LEO_MAX_M) = LEO_FRAC
    /\ meoFraction(LEO_MAX_M) = LEO_FRAC
    /\ meoFraction(MEO_MAX_M) = MEO_FRAC
    /\ geoFraction(MEO_MAX_M) = MEO_FRAC
    /\ \A alt \in { altLo, altHi } :
         /\ clampAltitude(alt) # NaN
         /\ shellFraction(clampAltitude(alt)) \in 0..ONE
    /\ \A out \in { scaledLo, scaledHi } :
         ATMOSPHERE_TOP_M <= out /\ out <= ATMOSPHERE_TOP_M + SHELL_THICKNESS_M

\* C27: each point of the RenderPoint list is coloured (and, where the tick
\* classifies, classified) with the type string that the mapping gives for
\* the catalogue number of the record the point was propagated from, also
\* when an earlier record was dropped in that tick.
C27_TypeOfOwnRecord ==
  (ticks > 0 /\ variant # "points") =>
    \A j \in 1..Len(data) :
      LET s == satrecs[srcIdx[j]]
          typ == typeOf(s, typesBySatnum)
          h == propagate(s.rec, tickNow).height
      IN  /\ data[j].color =
               (CASE variant = "mesh" -> pickColorByType(typ, s.id, h)
                  [] variant = "scatter" -> pickColorByTypePalette(typ, s.id, h)
                  [] variant = "overlay" -> overlayColor(typ, s.id, h))
          /\ (variant = "mesh" =>
                cats[j] = pickCategory(toUpperCase(trim(typ)), s.id, h))

\* C22: when the element sets were loaded (the TLE response is ok), a
\* failure to obtain or decode the type mapping does not set the loader's
\* error and does not take the globe away, and every tick then classifies
\* with the empty mapping.
C22_MappingFailureKeepsGlobe ==
  (tleRes = "ok" /\ loaderTypes # LoadedTypes) =>
    /\ ~err
    /\ globe # "unmounted"
    /\ (globeTicks > 0 => tickUsed = EmptyTypes)

\* C23: in a globe that classifies (the App.tsx and overlay variants) no
\* tick runs before the element records are set and the loading of the type
\* mapping has ended, and once the mapping is loaded every tick classifies
\* with it.
C23_NoTickBeforeInputs ==
  [][ (globeTicks' = globeTicks + 1 /\ globeVariant # "points") =>
        /\ loaderTles = "out"
        /\ loaderPc \in { "done", "failed" }
        /\ (loaderTypes = LoadedTypes => tickUsed' = LoadedTypes) ]_vars

\* C28: at most one refresh timer is active per globe component: a run of
\* the tick effect clears the timer of the previous run before it creates
\* its own, no cleared timer is active, and no tick is run by a cleared
\* timer.
C28_AtMostOneTimer ==
  [][ /\ Cardinality(timers') <= 1
      /\ timers' \cap cleared' = {}
      /\ (Len(closures') = Len(closures) + 1 =>
            /\ cleared' = 1..Len(closures)
            /\ timers' = { Len(closures') })
      /\ (globeTicks' = globeTicks + 1 => tickBy' \notin cleared) ]_vars

C28_Witness ==
  /\ globeVariant = "mesh"
  /\ Len(closures) = 2 /\ timers = { 2 } /\ cleared = { 1 }
  /\ globeTicks = MaxTicks /\ tickBy = 2 /\ tickUsed = LoadedTypes
=============================================================================
